---- MODULE Spec2Model ----
(***************************************************************************)
(* Model of the DatocmsImage component (src/src/Image/index.ts): the       *)
(* useInView visibility tracker, the two load/display strategy functions   *)
(* and the component's render, driven by the host's lifecycle hooks, the   *)
(* IntersectionObserver facility and the image's load event.               *)
(***************************************************************************)
EXTENDS Naturals, Sequences, FiniteSets, TLC

VARIABLES
    isSsr,                            \* module constant isSsr
    isIntersectionObserverAvailable,  \* module constant of the same name
    hostDropsQueued,    \* host facility: does disconnect() discard queued entries
    hasSrc,             \* props.data.src is present
    lazyLoad,           \* props.lazyLoad
    lazyLoadChanged,    \* history: the parent changed props.lazyLoad
    phase,              \* "created" (setup ran), "mounted", "unmounted"
    observer,           \* observer.value
    elRef,              \* elRef.value
    observing,          \* the observer currently has a target (observe .. disconnect)
    queue,              \* entries the host has queued for the callback (isIntersecting flags)
    inView,             \* inView.value
    loaded,             \* loaded.value
    inViewSetIn,        \* history: phase in which the callback set inView
    addCall,            \* last call of imageAddStrategy: arguments and result
    showCall,           \* last call of imageShowStrategy: arguments and result
    imgRequested,       \* a real <img> with the load handler has been created
    threw,              \* an operation raised an error
    detachCalls,        \* number of runs of the before-unmount hook
    lastOp              \* history: the operation that produced this state

vars == <<isSsr, isIntersectionObserverAvailable, hostDropsQueued, hasSrc,
          lazyLoad, lazyLoadChanged, phase, observer, elRef, observing, queue,
          inView, loaded, inViewSetIn, addCall, showCall, imgRequested, threw,
          detachCalls, lastOp>>

\* Bounds of the model.
MaxQueue == 2
MaxDetach == 2

NoObserver == "null"
TheObserver == "IntersectionObserver"
NoElement == "null"
TheElement == "div"

NoCall == [called |-> FALSE, lazyLoad |-> FALSE, inView |-> FALSE,
           loaded |-> FALSE, result |-> FALSE]

\* Variant of imageAddStrategy that mounts only on visibility.
imageAddStrategyInViewOnly(lazy, inV, ld) ==
    IF ~lazy THEN TRUE
    ELSE IF isSsr THEN FALSE
    ELSE IF isIntersectionObserverAvailable THEN inV
    ELSE TRUE

\* Variant of imageAddStrategy that mounts the image unconditionally.
imageAddStrategyEager(lazy, inV, ld) ==
    TRUE

imageAddStrategy(lazy, inV, ld) ==
    IF ~lazy THEN TRUE
    ELSE IF isSsr THEN FALSE
    ELSE IF isIntersectionObserverAvailable THEN inV \/ ld
    ELSE TRUE

\* Variant of imageShowStrategy with the loaded test inverted.
imageShowStrategyInverted(lazy, inV, ld) ==
    IF ~lazy THEN TRUE
    ELSE IF isSsr THEN FALSE
    ELSE IF isIntersectionObserverAvailable THEN ~ld
    ELSE TRUE

\* Variant of imageShowStrategy that treats a missing observer like a present one.
imageShowStrategyNoFailOpen(lazy, inV, ld) ==
    IF ~lazy THEN TRUE
    ELSE IF isSsr THEN FALSE
    ELSE ld

imageShowStrategy(lazy, inV, ld) ==
    IF ~lazy THEN TRUE
    ELSE IF isSsr THEN FALSE
    ELSE IF isIntersectionObserverAvailable THEN ld
    ELSE TRUE

AddCallOf(lazy, inV, ld) ==
    [called |-> TRUE, lazyLoad |-> lazy, inView |-> inV, loaded |-> ld,
     result |-> imageAddStrategy(lazy, inV, ld)]

ShowCallOf(lazy, inV, ld) ==
    [called |-> TRUE, lazyLoad |-> lazy, inView |-> inV, loaded |-> ld,
     result |-> imageShowStrategy(lazy, inV, ld)]

\* Calling disconnect() through a null observer.value raises a TypeError.
DisconnectThrows(obs) == obs = NoObserver

\* The host's queue of undelivered entries after disconnect().
QueueAfterDisconnect == IF hostDropsQueued THEN <<>> ELSE queue

\* State after setup(): useInView's refs and the loaded ref are created.
SetupState ==
    /\ lazyLoad \in BOOLEAN
    /\ hasSrc \in BOOLEAN
    /\ hostDropsQueued \in BOOLEAN
    /\ lazyLoadChanged = FALSE
    /\ phase = "created"
    /\ observer = NoObserver
    /\ elRef = NoElement
    /\ observing = FALSE
    /\ queue = <<>>
    /\ inView = FALSE
    /\ loaded = FALSE
    /\ inViewSetIn = "never"
    /\ addCall = NoCall
    /\ showCall = NoCall
    /\ imgRequested = FALSE
    /\ threw = FALSE
    /\ detachCalls = 0
    /\ lastOp = "setup"

Init ==
    /\ isSsr \in BOOLEAN
    /\ isIntersectionObserverAvailable \in (IF isSsr THEN {FALSE} ELSE BOOLEAN)
    /\ SetupState

\* render(): evaluates both strategies on the current state and builds the
\* tree; the host binds the root element to elRef when it patches the tree.
Render ==
    /\ phase \in {"created", "mounted"}
    /\ addCall' = AddCallOf(lazyLoad, inView, loaded)
    /\ showCall' = ShowCallOf(lazyLoad, inView, loaded)
    /\ imgRequested' = (imgRequested \/
                          (~isSsr /\ hasSrc /\ imageAddStrategy(lazyLoad, inView, loaded)))
    /\ \E el \in (IF isSsr THEN {NoElement}
                  ELSE IF elRef = NoElement THEN {NoElement, TheElement}
                  ELSE {elRef}) : elRef' = el
    /\ lastOp' = "render"
    /\ UNCHANGED <<isSsr, isIntersectionObserverAvailable, hostDropsQueued, hasSrc,
                   lazyLoad, lazyLoadChanged, phase, observer, observing, queue,
                   inView, loaded, inViewSetIn, threw, detachCalls>>

\* Variant of the onMounted hook without the availability test.
MountedNoGuard ==
    /\ ~isSsr
    /\ phase = "created"
    /\ addCall.called
    /\ phase' = "mounted"
    /\ observer' = TheObserver
    /\ observing' = (elRef # NoElement)
    /\ lastOp' = "mounted"
    /\ UNCHANGED <<isSsr, isIntersectionObserverAvailable, hostDropsQueued, hasSrc,
                   lazyLoad, lazyLoadChanged, elRef, queue, inView, loaded,
                   inViewSetIn, addCall, showCall, imgRequested, threw, detachCalls>>

\* onMounted hook of useInView (attach), run by the host after the first render.
Mounted ==
    /\ ~isSsr
    /\ phase = "created"
    /\ addCall.called
    /\ phase' = "mounted"
    /\ IF isIntersectionObserverAvailable
       THEN /\ observer' = TheObserver
            /\ observing' = (elRef # NoElement)
       ELSE UNCHANGED <<observer, observing>>
    /\ lastOp' = "mounted"
    /\ UNCHANGED <<isSsr, isIntersectionObserverAvailable, hostDropsQueued, hasSrc,
                   lazyLoad, lazyLoadChanged, elRef, queue, inView, loaded,
                   inViewSetIn, addCall, showCall, imgRequested, threw, detachCalls>>

\* The host's observation facility records an intersection change of the
\* observed element and queues an entry for the callback.
HostObserve ==
    /\ observing
    /\ Len(queue) < MaxQueue
    /\ \E isIntersecting \in BOOLEAN : queue' = Append(queue, isIntersecting)
    /\ lastOp' = "observe"
    /\ UNCHANGED <<isSsr, isIntersectionObserverAvailable, hostDropsQueued, hasSrc,
                   lazyLoad, lazyLoadChanged, phase, observer, elRef, observing,
                   inView, loaded, inViewSetIn, addCall, showCall, imgRequested,
                   threw, detachCalls>>

\* Variant of the callback that keeps observing after a positive detection.
NotifyKeepObserving ==
    /\ queue # <<>>
    /\ queue' = <<>>
    /\ IF Head(queue) /\ observer # NoObserver
       THEN /\ inView' = TRUE
            /\ inViewSetIn' = (IF inView THEN inViewSetIn ELSE phase)
       ELSE UNCHANGED <<inView, inViewSetIn>>
    /\ lastOp' = "notify"
    /\ UNCHANGED <<isSsr, isIntersectionObserverAvailable, hostDropsQueued, hasSrc,
                   lazyLoad, lazyLoadChanged, phase, observer, elRef, observing,
                   loaded, addCall, showCall, imgRequested, threw, detachCalls>>

\* Variant of the callback that does not test isIntersecting.
NotifyAnyEntry ==
    /\ queue # <<>>
    /\ IF observer # NoObserver
       THEN /\ inView' = TRUE
            /\ inViewSetIn' = (IF inView THEN inViewSetIn ELSE phase)
            /\ observing' = FALSE
            /\ queue' = <<>>
       ELSE /\ queue' = <<>>
            /\ UNCHANGED <<inView, inViewSetIn, observing>>
    /\ lastOp' = "notify"
    /\ UNCHANGED <<isSsr, isIntersectionObserverAvailable, hostDropsQueued, hasSrc,
                   lazyLoad, lazyLoadChanged, phase, observer, elRef,
                   loaded, addCall, showCall, imgRequested, threw, detachCalls>>

\* The host takes the queued entries and invokes the IntersectionObserver
\* callback with them; the callback looks at entries[0] only.
Notify ==
    /\ queue # <<>>
    /\ IF Head(queue) /\ observer # NoObserver
       THEN /\ inView' = TRUE
            /\ inViewSetIn' = (IF inView THEN inViewSetIn ELSE phase)
            /\ observing' = FALSE
            /\ queue' = <<>>
       ELSE /\ queue' = <<>>
            /\ UNCHANGED <<inView, inViewSetIn, observing>>
    /\ lastOp' = "notify"
    /\ UNCHANGED <<isSsr, isIntersectionObserverAvailable, hostDropsQueued, hasSrc,
                   lazyLoad, lazyLoadChanged, phase, observer, elRef,
                   loaded, addCall, showCall, imgRequested, threw, detachCalls>>

\* handleLoad: the load event of a real image created by render.
HandleLoad ==
    /\ imgRequested
    /\ loaded' = TRUE
    /\ lastOp' = "load"
    /\ UNCHANGED <<isSsr, isIntersectionObserverAvailable, hostDropsQueued, hasSrc,
                   lazyLoad, lazyLoadChanged, phase, observer, elRef, observing,
                   queue, inView, inViewSetIn, addCall, showCall, imgRequested,
                   threw, detachCalls>>

\* Variant of the before-unmount hook that also clears the tracker's state.
BeforeUnmountReset ==
    /\ detachCalls < MaxDetach
    /\ detachCalls' = detachCalls + 1
    /\ phase' = "unmounted"
    /\ IF isIntersectionObserverAvailable /\ observer # NoObserver
       THEN /\ observing' = FALSE
            /\ queue' = QueueAfterDisconnect
            /\ inView' = FALSE
       ELSE UNCHANGED <<observing, queue, inView>>
    /\ lastOp' = "detach"
    /\ UNCHANGED <<isSsr, isIntersectionObserverAvailable, hostDropsQueued, hasSrc,
                   lazyLoad, lazyLoadChanged, observer, elRef, loaded, threw,
                   inViewSetIn, addCall, showCall, imgRequested>>

\* Variant of the before-unmount hook without the null test of observer.value.
BeforeUnmountNoNullTest ==
    /\ detachCalls < MaxDetach
    /\ detachCalls' = detachCalls + 1
    /\ phase' = "unmounted"
    /\ IF isIntersectionObserverAvailable
       THEN IF DisconnectThrows(observer)
            THEN /\ threw' = TRUE
                 /\ UNCHANGED <<observing, queue>>
            ELSE /\ observing' = FALSE
                 /\ queue' = QueueAfterDisconnect
                 /\ UNCHANGED threw
       ELSE UNCHANGED <<observing, queue, threw>>
    /\ lastOp' = "detach"
    /\ UNCHANGED <<isSsr, isIntersectionObserverAvailable, hostDropsQueued, hasSrc,
                   lazyLoad, lazyLoadChanged, observer, elRef, inView, loaded,
                   inViewSetIn, addCall, showCall, imgRequested>>

\* onBeforeUnmount hook of useInView (detach).
BeforeUnmount ==
    /\ detachCalls < MaxDetach
    /\ detachCalls' = detachCalls + 1
    /\ phase' = "unmounted"
    /\ IF isIntersectionObserverAvailable /\ observer # NoObserver
       THEN IF DisconnectThrows(observer)
            THEN /\ threw' = TRUE
                 /\ UNCHANGED <<observing, queue>>
            ELSE /\ observing' = FALSE
                 /\ queue' = QueueAfterDisconnect
                 /\ UNCHANGED threw
       ELSE UNCHANGED <<observing, queue, threw>>
    /\ lastOp' = "detach"
    /\ UNCHANGED <<isSsr, isIntersectionObserverAvailable, hostDropsQueued, hasSrc,
                   lazyLoad, lazyLoadChanged, observer, elRef, inView, loaded,
                   inViewSetIn, addCall, showCall, imgRequested>>

\* The parent passes a new value of the lazyLoad prop.
SetLazyLoad ==
    /\ phase \in {"created", "mounted"}
    /\ lazyLoad' = ~lazyLoad
    /\ lazyLoadChanged' = TRUE
    /\ lastOp' = "props"
    /\ UNCHANGED <<isSsr, isIntersectionObserverAvailable, hostDropsQueued, hasSrc,
                   phase, observer, elRef, observing, queue, inView, loaded,
                   inViewSetIn, addCall, showCall, imgRequested, threw, detachCalls>>

Next ==
    \/ Render
    \/ Mounted
    \/ HostObserve
    \/ Notify
    \/ HandleLoad
    \/ BeforeUnmount
    \/ SetLazyLoad

Spec == Init /\ [][Next]_vars

\* The host's scheduler runs a pending render of a live component.
FairSpec == Spec /\ WF_vars(Render)

----
\* The strategy functions on their own: every environment and every argument.
CallAdd ==
    /\ \E lazy \in BOOLEAN, inV \in BOOLEAN, ld \in BOOLEAN :
          addCall' = AddCallOf(lazy, inV, ld)
    /\ lastOp' = "imageAddStrategy"
    /\ UNCHANGED <<isSsr, isIntersectionObserverAvailable, hostDropsQueued, hasSrc,
                   lazyLoad, lazyLoadChanged, phase, observer, elRef, observing,
                   queue, inView, loaded, inViewSetIn, showCall, imgRequested,
                   threw, detachCalls>>

CallShow ==
    /\ \E lazy \in BOOLEAN, inV \in BOOLEAN, ld \in BOOLEAN :
          showCall' = ShowCallOf(lazy, inV, ld)
    /\ lastOp' = "imageShowStrategy"
    /\ UNCHANGED <<isSsr, isIntersectionObserverAvailable, hostDropsQueued, hasSrc,
                   lazyLoad, lazyLoadChanged, phase, observer, elRef, observing,
                   queue, inView, loaded, inViewSetIn, addCall, imgRequested,
                   threw, detachCalls>>

StrategyNext ==
    \/ CallAdd
    \/ CallShow

StrategySpec == Init /\ [][StrategyNext]_vars

----
\* The rendered tree has the real image mounted and at opacity 1.
Shown == addCall.called /\ addCall.result /\ showCall.called /\ showCall.result

\* C1 (as stated): imageShowStrategy returns TRUE when lazyLoad is off, FALSE
\* when lazy loading is on in a server-rendered context, and otherwise
\* exactly loaded, whether or not the observer facility exists.
C1_ShowIgnoresObserver ==
    showCall.called =>
        /\ (~showCall.lazyLoad => showCall.result = TRUE)
        /\ (showCall.lazyLoad /\ isSsr => showCall.result = FALSE)
        /\ (showCall.lazyLoad /\ ~isSsr => showCall.result = showCall.loaded)

\* C1 (amended): imageShowStrategy returns TRUE when lazyLoad is off, FALSE
\* when lazy loading is on in a server-rendered context, loaded when the
\* observer facility is available, and TRUE when it is not (non-server);
\* the result never depends on inView.
C1_ShowStrategy ==
    showCall.called =>
        /\ (~showCall.lazyLoad => showCall.result = TRUE)
        /\ (showCall.lazyLoad /\ isSsr => showCall.result = FALSE)
        /\ (showCall.lazyLoad /\ ~isSsr /\ isIntersectionObserverAvailable
               => showCall.result = showCall.loaded)
        /\ (showCall.lazyLoad /\ ~isSsr /\ ~isIntersectionObserverAvailable
               => showCall.result = TRUE)

C1_Witness ==
    /\ showCall.called /\ showCall.lazyLoad /\ ~showCall.loaded
    /\ ~isSsr /\ ~isIntersectionObserverAvailable
    /\ showCall.result

\* C2: imageAddStrategy returns TRUE when lazyLoad is off; else FALSE when
\* server-rendered; else inView OR loaded when the observer facility is
\* available; else TRUE.
C2_AddStrategy ==
    addCall.called =>
        /\ (~addCall.lazyLoad => addCall.result = TRUE)
        /\ (addCall.lazyLoad /\ isSsr => addCall.result = FALSE)
        /\ (addCall.lazyLoad /\ ~isSsr /\ isIntersectionObserverAvailable
               => addCall.result = (addCall.inView \/ addCall.loaded))
        /\ (addCall.lazyLoad /\ ~isSsr /\ ~isIntersectionObserverAvailable
               => addCall.result = TRUE)

C2_Witness ==
    /\ addCall.called /\ addCall.lazyLoad /\ ~addCall.inView /\ addCall.loaded
    /\ ~isSsr /\ isIntersectionObserverAvailable
    /\ addCall.result

\* C3: inView and loaded start FALSE and are one-way latches: no step of any
\* operation takes either from TRUE back to FALSE.
C3_Latches ==
    /\ (~inView /\ ~loaded)
    /\ [][(inView => inView') /\ (loaded => loaded')]_vars

C3_Witness == inView /\ loaded /\ phase = "unmounted" /\ lastOp = "detach"

\* C4: a notification whose first entry is intersecting sets inView and in
\* the same step disconnects the observer; once inView is set the observer
\* never observes again and no entry is ever queued or delivered again, so
\* inView and the tracker change no further.
C4_OneNotification ==
    [][ /\ (lastOp' = "notify" /\ queue # <<>> /\ Head(queue))
            => (inView' /\ ~observing' /\ queue' = <<>>)
        /\ (observer # NoObserver /\ ~observing => ~observing')
        /\ inView => (inView' /\ ~observing' /\ queue' = <<>>
                        /\ lastOp' # "notify" /\ lastOp' # "observe"
                        /\ observer' = observer)
      ]_vars

C4_Witness ==
    /\ inView /\ inViewSetIn = "mounted" /\ ~observing /\ queue = <<>>
    /\ lastOp = "render" /\ phase = "mounted"

\* C5: once the before-unmount hook has run with inView still FALSE, no
\* later step (a delivery of an entry queued before the disconnect included)
\* sets inView.
C5_NoInViewAfterDetach ==
    [][(phase = "unmounted" /\ ~inView) => ~inView']_vars

\* C6: the before-unmount hook never raises and never changes inView or
\* loaded, in whatever state it runs (before attach, after a no-op attach,
\* after the observer released itself); run again after a first run it
\* changes no state of the component or of the observer.
C6_DetachIdempotent ==
    [][ lastOp' = "detach" =>
          /\ ~threw'
          /\ inView' = inView /\ loaded' = loaded
          /\ observer' = observer
          /\ ~observing'
          /\ (phase = "unmounted" =>
                UNCHANGED <<observing, queue, elRef, addCall, showCall,
                            imgRequested, lazyLoad, phase>>)
      ]_vars

C6_Witness == detachCalls = 2 /\ lastOp = "detach" /\ inView /\ observer # NoObserver

\* C7: without the observer facility no observer is ever created and inView
\* is FALSE in every reachable state.
C7_NoObserverNoInView ==
    ~isIntersectionObserverAvailable =>
        (observer = NoObserver /\ ~observing /\ queue = <<>> /\ ~inView)

C7_Witness ==
    /\ ~isIntersectionObserverAvailable /\ ~isSsr /\ lazyLoad
    /\ phase = "unmounted" /\ loaded /\ showCall.called

\* C8: with lazy loading on and never changed, not server-rendered and the
\* observer facility available, loaded implies inView, and a real image has
\* been created only if inView.
C8_LoadOnlyAfterInView ==
    (lazyLoad /\ ~lazyLoadChanged /\ ~isSsr /\ isIntersectionObserverAvailable)
        => ((loaded => inView) /\ (imgRequested => inView))

C8_Witness ==
    /\ lazyLoad /\ ~lazyLoadChanged /\ ~isSsr /\ isIntersectionObserverAvailable
    /\ loaded /\ inView /\ imgRequested

\* C9: a notification whose first entry is not intersecting leaves inView,
\* loaded and the observer as they are (still observing if it was); a
\* notification whose first entry is intersecting sets inView; inView is set
\* by no other step.
C9_NonIntersectingIsNoOp ==
    [][ /\ (lastOp' = "notify" /\ queue # <<>> /\ ~Head(queue))
            => UNCHANGED <<inView, loaded, observer, observing, inViewSetIn>>
        /\ (lastOp' = "notify" /\ queue # <<>> /\ Head(queue)) => inView'
        /\ (~inView /\ inView')
            => (lastOp' = "notify" /\ queue # <<>> /\ Head(queue))
      ]_vars

C9_Witness ==
    /\ lastOp = "notify" /\ ~inView /\ observing /\ phase = "mounted"

\* Premise of C10: lazy loading on throughout, client side, observer facility
\* available, data.src present, an intersecting notification delivered
\* before the before-unmount hook, and the image's load event fired.
C10_Premise ==
    /\ lazyLoad /\ ~lazyLoadChanged /\ ~isSsr /\ isIntersectionObserverAvailable
    /\ hasSrc /\ inViewSetIn = "mounted" /\ loaded

\* C10 (as stated): from the premise, with renders scheduled fairly, the
\* component eventually renders with the image mounted and shown and keeps
\* that output for ever.
C10_EventuallyShown == C10_Premise ~> []Shown

\* C10 (amended): from the premise, with renders scheduled fairly, the
\* component eventually renders with the image mounted and shown unless it
\* is unmounted first; once it has, every later state keeps that output.
C10_ShownUnlessUnmounted ==
    /\ C10_Premise ~> (Shown \/ phase = "unmounted")
    /\ [][(inView /\ loaded /\ Shown) => Shown']_vars

C10_Witness == C10_Premise /\ Shown /\ phase = "mounted" /\ showCall.loaded

====
